---- MODULE Spec2Model ----
(***************************************************************************)
(* Ledger pruner of aptosdb: LedgerPruner (ledger_store_pruner.rs), the    *)
(* DBPruner contract it implements, its four sub-pruners, the persisted    *)
(* PrunerMetadata checkpoint and the atomic SchemaBatch commit.            *)
(*                                                                         *)
(* A prune call is split at the points where another task, or a crash,     *)
(* can be interleaved: the pending check, prune_inner's computation of the *)
(* range, each sub-pruner's staging, the metadata put, write_schemas and   *)
(* record_progress.                                                        *)
(***************************************************************************)
EXTENDS Integers, FiniteSets, Sequences, TLC

\* Version is u64 and max_versions is usize: both are scaled down to the
\* range 0..VersionMax, and u64 addition wraps modulo VersionMax + 1.
VersionMax == 3

Versions == 0..VersionMax

VersionModulus == VersionMax + 1

\* The tasks that may call LedgerPruner::prune on the one pruner instance.
Callers == {1, 2}

\* The four sub-pruners, in the order prune_inner invokes them.
SubPruners ==
    <<"transaction_store_pruner", "write_set_pruner",
      "ledger_counter_pruner", "event_store_pruner">>

NumSubPruners == Len(SubPruners)

SubStores == {SubPruners[i] : i \in 1..NumSubPruners}

VARIABLES
    overflow_checks,       \* build profile: TRUE = u64 overflow panics, FALSE = it wraps
    target_version,        \* LedgerPruner.target_version (AtomicVersion)
    min_readable_version,  \* LedgerPruner.min_readable_version (AtomicVersion)
    gauge,                 \* PRUNER_LEAST_READABLE_VERSION{"ledger_pruner"}
    metadata,              \* persisted PrunerMetadataSchema record of PrunerTag::LedgerPruner: {} or {v}
    store,                 \* persisted records: store[s] = versions that sub-store s still holds
    pc,                    \* pc[c]: position of caller c inside prune
    max_versions,          \* pc[c] # "idle": the argument of the call
    start_version,         \* prune_inner's local min_readable_version
    current_target_version,\* prune_inner's local current_target_version
    next_sub,              \* index of the sub-pruner prune_inner invokes next
    db_batch,              \* the call's SchemaBatch
    ret,                   \* the call's result, once pc[c] = "done"
    entry,                 \* what the caller saw when the call began
    last_op,               \* the operation that acted last: "new", "prune" or "set_target_version"
    attempt,               \* the failed call the driver may retry: the last call, while the target is unchanged
    g_pc,                  \* position of the bootstrap caller inside prune_genesis
    g_target_version,      \* target_version of the pruner prune_genesis creates
    g_min_readable_version,\* min_readable_version of the pruner prune_genesis creates
    g_start_version,       \* prune_inner's local min_readable_version, in prune_genesis
    g_current_target_version, \* prune_inner's local current_target_version, in prune_genesis
    g_next_sub,            \* index of the sub-pruner prune_genesis invokes next
    change_set,            \* what prune_genesis has staged into the caller's change_set.batch
    g_ret,                 \* the result of prune_genesis, once g_pc = "done"
    api_latest,            \* version of the latest ledger info the API context reports
    api_min_readable,      \* state below this version has been pruned from storage
    api_resp,              \* the response to the State API request handled last
    driver_n,              \* the chunk size of the pruning driver; 0 while no driver runs
    so_self,               \* the SessionOutput that squash and into_change_set are called on
    so_other,              \* the SessionOutput given to squash
    so_before,             \* so_self as it was before the call
    so_ret,                \* the result of the call on so_self: "none" before it
    so_write_set           \* the write set of the ChangeSet into_change_set returned

vars ==
    <<overflow_checks, target_version, min_readable_version, gauge, metadata,
      store, pc, max_versions, start_version, current_target_version,
      next_sub, db_batch, ret, entry, last_op, attempt,
      g_pc, g_target_version, g_min_readable_version, g_start_version,
      g_current_target_version, g_next_sub, change_set, g_ret,
      api_latest, api_min_readable, api_resp, driver_n,
      so_self, so_other, so_before, so_ret, so_write_set>>

genesis_vars ==
    <<g_pc, g_target_version, g_min_readable_version, g_start_version,
      g_current_target_version, g_next_sub, change_set, g_ret>>

api_vars == <<api_latest, api_min_readable, api_resp>>

driver_vars == <<driver_n>>

session_vars == <<so_self, so_other, so_before, so_ret, so_write_set>>

\* A SessionOutput without changes: change_set (resources and modules by
\* key), events, and the table_change_set (new_tables, removed_tables and
\* changes: the entries by key of each table handle).
EmptySession ==
    [resources |-> <<>>, modules |-> <<>>, events |-> <<>>,
     new_tables |-> {}, removed_tables |-> {}, changes |-> <<>>]

shared == <<target_version, min_readable_version, gauge, metadata, store>>

\* The instance the pruning loop drives, its database and its calls.
pruner_vars ==
    <<target_version, min_readable_version, gauge, metadata, store, pc,
      max_versions, start_version, current_target_version, next_sub,
      db_batch, ret, entry, last_op, attempt>>

Min(a, b) == IF a <= b THEN a ELSE b

\* `min_readable_version as i64`: two's complement reinterpretation.
AsI64(v) == IF 2 * v >= VersionModulus THEN v - VersionModulus ELSE v

\* SchemaBatch::new()
EmptyBatch == [deletes |-> [s \in SubStores |-> {}], puts |-> {}]

NoRet == [kind |-> "None", val |-> 0, at |-> "none"]

\* No failed call is remembered.
NoAttempt ==
    [failed |-> FALSE, n |-> 0, target |-> 0, start |-> 0, end |-> 0,
     store |-> [s \in SubStores |-> {}]]

\* No State API request has been handled.
NoResponse ==
    [endpoint |-> "none", requested |-> {}, version |-> 0, latest |-> 0,
     pruned |-> FALSE, status |-> 0, at |-> "none", what |-> "none",
     carried |-> 0, state_view |-> FALSE]

NoEntry ==
    [min |-> 0, target |-> 0, gauge |-> 0, metadata |-> {},
     store |-> [s \in SubStores |-> {}]]

\* DBPruner::is_pruning_pending
is_pruning_pending == target_version > min_readable_version

\* DBPruner::get_currrent_batch_target, the u64 sum before overflow handling
BatchTargetSum(max) == min_readable_version + max

\* DBPruner::get_currrent_batch_target: the sum does not fit a u64
BatchTargetOverflows(max) == BatchTargetSum(max) > VersionMax

\* DBPruner::get_currrent_batch_target on a build where the sum wraps
get_currrent_batch_target(max) ==
    Min(BatchTargetSum(max) % VersionModulus, target_version)

\* LedgerPruner::initialize_min_readable_version
initialize_min_readable_version ==
    IF metadata = {} THEN 0 ELSE CHOOSE v \in metadata : TRUE

\* DBSubPruner::prune: stage the deletion of the records of [start, end) of
\* store s; the staging is additive and commits nothing.
SubPrunerPrune(batch, s, start, end) ==
    [batch EXCEPT !.deletes[s] = @ \cup {v \in Versions : start <= v /\ v < end}]

\* DBSubPruner::prune, the constraint of the contract: start <= end.  A call
\* outside it is answered with an error and stages nothing.
SubPrunerAccepts(start, end) == start <= end

\* SchemaBatch::put::<PrunerMetadataSchema>(LedgerPruner, LatestVersion(v))
BatchPutMetadata(batch, v) == [batch EXCEPT !.puts = {v}]

Idle(c) == pc[c] = "idle"

\* Calls to prune are serialized: a call begins only when no call is in progress.
Serialized == \A c \in Callers : Idle(c)

ClearLocals(c) ==
    /\ max_versions' = [max_versions EXCEPT ![c] = 0]
    /\ start_version' = [start_version EXCEPT ![c] = 0]
    /\ current_target_version' = [current_target_version EXCEPT ![c] = 0]
    /\ next_sub' = [next_sub EXCEPT ![c] = 1]
    /\ db_batch' = [db_batch EXCEPT ![c] = EmptyBatch]

\* The call ends: its result becomes observable to the caller.
Finish(c, r) ==
    /\ pc' = [pc EXCEPT ![c] = "done"]
    /\ ret' = [ret EXCEPT ![c] = r]

Ok(v) == [kind |-> "Ok", val |-> v, at |-> "none"]

Err(where) == [kind |-> "Err", val |-> 0, at |-> where]

Panic(where) == [kind |-> "Panic", val |-> 0, at |-> where]

\* LedgerPruner::record_progress
record_progress(v) ==
    /\ min_readable_version' = v
    /\ gauge' = AsI64(v)

\* new that does not call initialize: the persisted checkpoint is not read
New_NoInitialize ==
    /\ target_version' = 0
    /\ min_readable_version' = 0
    /\ gauge' = 0

\* LedgerPruner::new on the open database: both counters start at 0 and
\* DBPruner::initialize records the persisted checkpoint.
New ==
    /\ target_version' = 0
    /\ record_progress(initialize_min_readable_version)

\* The state after LedgerPruner::new on an empty database; no prune_genesis
\* call, no State API request and no driver.
InitPruner ==
    /\ overflow_checks \in BOOLEAN
    /\ target_version = 0
    /\ min_readable_version = 0
    /\ gauge = 0
    /\ metadata = {}
    /\ store = [s \in SubStores |-> Versions]
    /\ pc = [c \in Callers |-> "idle"]
    /\ max_versions = [c \in Callers |-> 0]
    /\ start_version = [c \in Callers |-> 0]
    /\ current_target_version = [c \in Callers |-> 0]
    /\ next_sub = [c \in Callers |-> 1]
    /\ db_batch = [c \in Callers |-> EmptyBatch]
    /\ ret = [c \in Callers |-> NoRet]
    /\ entry = [c \in Callers |-> NoEntry]
    /\ last_op = "new"
    /\ attempt = NoAttempt
    /\ g_pc = "idle"
    /\ g_target_version = 0
    /\ g_min_readable_version = 0
    /\ g_start_version = 0
    /\ g_current_target_version = 0
    /\ g_next_sub = 1
    /\ change_set = EmptyBatch
    /\ g_ret = NoRet
    /\ api_latest = 0
    /\ api_min_readable = 0
    /\ api_resp = NoResponse
    /\ driver_n = 0

\* No SessionOutput is at hand.
NoSession ==
    /\ so_self = EmptySession
    /\ so_other = EmptySession
    /\ so_before = EmptySession
    /\ so_ret = "none"
    /\ so_write_set = {}

Init == InitPruner /\ NoSession

\* prune without the is_pruning_pending fast path
Prune_NoFastPath(c, n) ==
    /\ Idle(c)
    /\ entry' = [entry EXCEPT ![c] =
                    [min |-> min_readable_version, target |-> target_version,
                     gauge |-> gauge, metadata |-> metadata, store |-> store]]
    /\ max_versions' = [max_versions EXCEPT ![c] = n]
    /\ pc' = [pc EXCEPT ![c] = "prune_inner"]
    /\ db_batch' = [db_batch EXCEPT ![c] = EmptyBatch]
    /\ last_op' = "prune"
    /\ UNCHANGED <<overflow_checks, driver_vars, session_vars, genesis_vars, api_vars,
                   attempt, shared, start_version,
                   current_target_version, next_sub, ret>>

\* prune, lines 42-48: the pending check and the creation of the batch.
Prune(c, n) ==
    /\ Idle(c)
    /\ entry' = [entry EXCEPT ![c] =
                    [min |-> min_readable_version, target |-> target_version,
                     gauge |-> gauge, metadata |-> metadata, store |-> store]]
    /\ max_versions' = [max_versions EXCEPT ![c] = n]
    /\ IF ~is_pruning_pending
         THEN Finish(c, Ok(min_readable_version))
         ELSE /\ pc' = [pc EXCEPT ![c] = "prune_inner"]
              /\ ret' = ret
    /\ db_batch' = [db_batch EXCEPT ![c] = EmptyBatch]
    /\ last_op' = "prune"
    /\ UNCHANGED <<overflow_checks, driver_vars, session_vars, genesis_vars, api_vars,
                   attempt, shared, start_version,
                   current_target_version, next_sub>>

\* prune_inner that takes target_version as the end of the range, whatever
\* max_versions is
PruneInner_NoChunk(c) ==
    /\ pc[c] = "prune_inner"
    /\ start_version' = [start_version EXCEPT ![c] = min_readable_version]
    /\ current_target_version' =
            [current_target_version EXCEPT ![c] = target_version]
    /\ next_sub' = [next_sub EXCEPT ![c] = 1]
    /\ pc' = [pc EXCEPT ![c] = "sub_pruner"]
    /\ UNCHANGED <<overflow_checks, driver_vars, session_vars, genesis_vars, api_vars,
                   attempt, shared, max_versions, db_batch, ret, entry,
                   last_op>>

\* prune_inner that does not cap the end of the range at target_version
PruneInner_NoCap(c) ==
    /\ pc[c] = "prune_inner"
    /\ start_version' = [start_version EXCEPT ![c] = min_readable_version]
    /\ current_target_version' =
            [current_target_version EXCEPT
                ![c] = BatchTargetSum(max_versions[c]) % VersionModulus]
    /\ next_sub' = [next_sub EXCEPT ![c] = 1]
    /\ pc' = [pc EXCEPT ![c] = "sub_pruner"]
    /\ UNCHANGED <<overflow_checks, driver_vars, session_vars, genesis_vars, api_vars,
                   attempt, shared, max_versions, db_batch, ret, entry,
                   last_op>>

\* prune_inner, lines 138-142: the range of this call.
PruneInner(c) ==
    /\ pc[c] = "prune_inner"
    /\ IF overflow_checks /\ BatchTargetOverflows(max_versions[c])
         THEN /\ Finish(c, Panic("get_currrent_batch_target"))
              /\ UNCHANGED <<start_version, current_target_version, next_sub>>
         ELSE /\ start_version' = [start_version EXCEPT ![c] = min_readable_version]
              /\ current_target_version' =
                    [current_target_version EXCEPT
                        ![c] = get_currrent_batch_target(max_versions[c])]
              /\ next_sub' = [next_sub EXCEPT ![c] = 1]
              /\ pc' = [pc EXCEPT ![c] = "sub_pruner"]
              /\ ret' = ret
    /\ UNCHANGED <<overflow_checks, driver_vars, session_vars, genesis_vars, api_vars,
                   attempt, shared, max_versions, db_batch, entry, last_op>>

\* prune_inner whose sub-pruners write their deletions to the database
\* themselves instead of staging them into the shared batch
SubPrune_CommitsItself(c) ==
    /\ pc[c] = "sub_pruner"
    /\ SubPrunerAccepts(start_version[c], current_target_version[c])
    /\ store' = [store EXCEPT ![SubPruners[next_sub[c]]] =
            @ \ SubPrunerPrune(EmptyBatch, SubPruners[next_sub[c]],
                               start_version[c], current_target_version[c])
                    .deletes[SubPruners[next_sub[c]]]]
    /\ IF next_sub[c] = NumSubPruners
         THEN /\ pc' = [pc EXCEPT ![c] = "put"]
              /\ next_sub' = next_sub
         ELSE /\ pc' = pc
              /\ next_sub' = [next_sub EXCEPT ![c] = @ + 1]
    /\ UNCHANGED <<overflow_checks, driver_vars, session_vars, genesis_vars, api_vars, attempt,
                   target_version, min_readable_version, gauge, metadata,
                   max_versions, start_version, current_target_version,
                   db_batch, ret, entry, last_op>>

\* prune_inner that hands the sub-pruners target_version as the end of the
\* range instead of current_target_version
SubPrune_ToTarget(c) ==
    /\ pc[c] = "sub_pruner"
    /\ SubPrunerAccepts(start_version[c], target_version)
    /\ db_batch' = [db_batch EXCEPT ![c] =
            SubPrunerPrune(@, SubPruners[next_sub[c]],
                           start_version[c], target_version)]
    /\ IF next_sub[c] = NumSubPruners
         THEN /\ pc' = [pc EXCEPT ![c] = "put"]
              /\ next_sub' = next_sub
         ELSE /\ pc' = pc
              /\ next_sub' = [next_sub EXCEPT ![c] = @ + 1]
    /\ UNCHANGED <<overflow_checks, driver_vars, session_vars, genesis_vars, api_vars,
                   attempt, shared, max_versions, start_version,
                   current_target_version, ret, entry, last_op>>

\* prune_inner that invokes the sub-pruners in the reverse order
SubPrune_Reversed(c) ==
    /\ pc[c] = "sub_pruner"
    /\ SubPrunerAccepts(start_version[c], current_target_version[c])
    /\ db_batch' = [db_batch EXCEPT ![c] =
            SubPrunerPrune(@, SubPruners[NumSubPruners + 1 - next_sub[c]],
                           start_version[c], current_target_version[c])]
    /\ IF next_sub[c] = NumSubPruners
         THEN /\ pc' = [pc EXCEPT ![c] = "put"]
              /\ next_sub' = next_sub
         ELSE /\ pc' = pc
              /\ next_sub' = [next_sub EXCEPT ![c] = @ + 1]
    /\ UNCHANGED <<overflow_checks, driver_vars, session_vars, genesis_vars, api_vars,
                   attempt, shared, max_versions, start_version,
                   current_target_version, ret, entry, last_op>>

\* prune_inner, lines 144-154: the next sub-pruner stages its deletions.
SubPrune(c) ==
    /\ pc[c] = "sub_pruner"
    /\ SubPrunerAccepts(start_version[c], current_target_version[c])
    /\ db_batch' = [db_batch EXCEPT ![c] =
            SubPrunerPrune(@, SubPruners[next_sub[c]],
                           start_version[c], current_target_version[c])]
    /\ IF next_sub[c] = NumSubPruners
         THEN /\ pc' = [pc EXCEPT ![c] = "put"]
              /\ next_sub' = next_sub
         ELSE /\ pc' = pc
              /\ next_sub' = [next_sub EXCEPT ![c] = @ + 1]
    /\ UNCHANGED <<overflow_checks, driver_vars, session_vars, genesis_vars, api_vars,
                   attempt, shared, max_versions, start_version,
                   current_target_version, ret, entry, last_op>>

\* prune_inner that commits what is staged so far before it returns the
\* error of a sub-pruner
SubPruneFails_CommitsPartial(c) ==
    /\ pc[c] = "sub_pruner"
    /\ store' = [s \in SubStores |-> store[s] \ db_batch[c].deletes[s]]
    /\ Finish(c, Err(SubPruners[next_sub[c]]))
    /\ UNCHANGED <<overflow_checks, driver_vars, session_vars, genesis_vars, api_vars, attempt,
                   target_version, min_readable_version, gauge, metadata,
                   max_versions, start_version, current_target_version,
                   next_sub, db_batch, entry, last_op>>

\* prune_inner, lines 144-154: the next sub-pruner returns an error (`?`): a
\* record it cannot read, or a range outside its contract (start > end).
SubPruneFails(c) ==
    /\ pc[c] = "sub_pruner"
    /\ Finish(c, Err(SubPruners[next_sub[c]]))
    /\ UNCHANGED <<overflow_checks, driver_vars, session_vars, genesis_vars, api_vars,
                   attempt, shared, max_versions, start_version,
                   current_target_version, next_sub, db_batch, entry, last_op>>

\* prune that stages the start of the range as the checkpoint
PutMetadata_StagesStart(c) ==
    /\ pc[c] = "put"
    /\ db_batch' = [db_batch EXCEPT ![c] =
            BatchPutMetadata(@, start_version[c])]
    /\ pc' = [pc EXCEPT ![c] = "write_schemas"]
    /\ UNCHANGED <<overflow_checks, driver_vars, session_vars, genesis_vars, api_vars,
                   attempt, shared, max_versions, start_version,
                   current_target_version, next_sub, ret, entry, last_op>>

\* prune, lines 50-53: the checkpoint is staged into the same batch.
PutMetadata(c) ==
    /\ pc[c] = "put"
    /\ db_batch' = [db_batch EXCEPT ![c] =
            BatchPutMetadata(@, current_target_version[c])]
    /\ pc' = [pc EXCEPT ![c] = "write_schemas"]
    /\ UNCHANGED <<overflow_checks, driver_vars, session_vars, genesis_vars, api_vars,
                   attempt, shared, max_versions, start_version,
                   current_target_version, next_sub, ret, entry, last_op>>

\* prune, lines 50-53: db_batch.put returns an error (`?`).
PutMetadataFails(c) ==
    /\ pc[c] = "put"
    /\ Finish(c, Err("put"))
    /\ UNCHANGED <<overflow_checks, driver_vars, session_vars, genesis_vars, api_vars,
                   attempt, shared, max_versions, start_version,
                   current_target_version, next_sub, db_batch, entry, last_op>>

\* DB::write_schemas: every staged deletion and put is applied in one write.
ApplyBatch(batch) ==
    /\ store' = [s \in SubStores |-> store[s] \ batch.deletes[s]]
    /\ metadata' = IF batch.puts = {} THEN metadata ELSE batch.puts

\* prune, line 55: the batch is committed.
WriteSchemas(c) ==
    /\ pc[c] = "write_schemas"
    /\ ApplyBatch(db_batch[c])
    /\ pc' = [pc EXCEPT ![c] = "record_progress"]
    /\ UNCHANGED <<overflow_checks, driver_vars, session_vars, genesis_vars, api_vars,
                   attempt, target_version, min_readable_version, gauge,
                   max_versions, start_version, current_target_version,
                   next_sub, db_batch, ret, entry, last_op>>

\* prune that records progress before it looks at the result of write_schemas
WriteSchemasFails_RecordsFirst(c) ==
    /\ pc[c] = "write_schemas"
    /\ record_progress(current_target_version[c])
    /\ Finish(c, Err("write_schemas"))
    /\ UNCHANGED <<overflow_checks, driver_vars, session_vars, genesis_vars, api_vars,
                   attempt, target_version, metadata, store,
                   max_versions, start_version, current_target_version,
                   next_sub, db_batch, entry, last_op>>

\* prune that drops the error of write_schemas and goes on to record_progress
WriteSchemasFails_Swallowed(c) ==
    /\ pc[c] = "write_schemas"
    /\ pc' = [pc EXCEPT ![c] = "record_progress"]
    /\ UNCHANGED <<overflow_checks, driver_vars, session_vars, genesis_vars, api_vars,
                   attempt, shared, max_versions, start_version,
                   current_target_version, next_sub, db_batch, ret, entry,
                   last_op>>

\* prune, line 55: write_schemas returns an error (`?`); the batch is dropped.
WriteSchemasFails(c) ==
    /\ pc[c] = "write_schemas"
    /\ Finish(c, Err("write_schemas"))
    /\ UNCHANGED <<overflow_checks, driver_vars, session_vars, genesis_vars, api_vars,
                   attempt, shared, max_versions, start_version,
                   current_target_version, next_sub, db_batch, entry, last_op>>

\* prune that records max_versions instead of current_target_version
RecordProgress_RecordsChunk(c) ==
    /\ pc[c] = "record_progress"
    /\ record_progress(max_versions[c])
    /\ Finish(c, Ok(current_target_version[c]))
    /\ UNCHANGED <<overflow_checks, driver_vars, session_vars, genesis_vars, api_vars,
                   attempt, target_version, metadata, store,
                   max_versions, start_version, current_target_version,
                   next_sub, db_batch, entry, last_op>>

\* prune, lines 60-61: progress is recorded and the checkpoint returned.
RecordProgress(c) ==
    /\ pc[c] = "record_progress"
    /\ record_progress(current_target_version[c])
    /\ Finish(c, Ok(current_target_version[c]))
    /\ UNCHANGED <<overflow_checks, driver_vars, session_vars, genesis_vars, api_vars,
                   attempt, target_version, metadata, store,
                   max_versions, start_version, current_target_version,
                   next_sub, db_batch, entry, last_op>>

\* The caller takes the result; the call's locals are dropped.  Of a call
\* that failed the driver keeps the argument and what it staged, to retry it.
Return(c) ==
    /\ pc[c] = "done"
    /\ pc' = [pc EXCEPT ![c] = "idle"]
    /\ ret' = [ret EXCEPT ![c] = NoRet]
    /\ entry' = [entry EXCEPT ![c] = NoEntry]
    /\ attempt' =
            IF ret[c].kind = "Err"
              THEN [failed |-> TRUE, n |-> max_versions[c],
                    target |-> entry[c].target,
                    start |-> start_version[c],
                    end |-> current_target_version[c],
                    store |-> entry[c].store]
              ELSE NoAttempt
    /\ ClearLocals(c)
    /\ UNCHANGED <<overflow_checks, driver_vars, session_vars, genesis_vars, api_vars, shared, last_op>>

\* set_target_version that keeps min_readable_version at or below the target
\* by lowering it
SetTargetVersion_ClampsMin(v) ==
    /\ target_version' = v
    /\ record_progress(Min(min_readable_version, v))
    /\ last_op' = "set_target_version"
    /\ attempt' = NoAttempt
    /\ UNCHANGED <<overflow_checks, driver_vars, session_vars, genesis_vars, api_vars,
                   metadata, store, pc, max_versions, start_version,
                   current_target_version, next_sub, db_batch, ret, entry>>

\* LedgerPruner::set_target_version.  With another target the next call is
\* not a retry of the last one.
SetTargetVersion(v) ==
    /\ target_version' = v
    /\ last_op' = "set_target_version"
    /\ attempt' = NoAttempt
    /\ UNCHANGED <<overflow_checks, driver_vars, session_vars, genesis_vars, api_vars,
                   min_readable_version, gauge, metadata,
                   store, pc, max_versions, start_version,
                   current_target_version, next_sub, db_batch, ret, entry>>

\* The process stops at any point and is started again on the same database:
\* every in-memory value is lost and LedgerPruner::new runs.
Restart ==
    /\ New
    /\ pc' = [c \in Callers |-> "idle"]
    /\ max_versions' = [c \in Callers |-> 0]
    /\ start_version' = [c \in Callers |-> 0]
    /\ current_target_version' = [c \in Callers |-> 0]
    /\ next_sub' = [c \in Callers |-> 1]
    /\ db_batch' = [c \in Callers |-> EmptyBatch]
    /\ ret' = [c \in Callers |-> NoRet]
    /\ entry' = [c \in Callers |-> NoEntry]
    /\ last_op' = "new"
    /\ attempt' = NoAttempt
    /\ UNCHANGED <<overflow_checks, driver_vars, session_vars, genesis_vars, api_vars, metadata, store>>

\* The steps of a call that is in progress.
Step(c) ==
    \/ PruneInner(c)
    \/ SubPrune(c)
    \/ SubPruneFails(c)
    \/ PutMetadata(c)
    \/ PutMetadataFails(c)
    \/ WriteSchemas(c)
    \/ WriteSchemasFails(c)
    \/ RecordProgress(c)
    \/ Return(c)

\* prune_genesis, line 123: the genesis version is 0, the range meant is [0, 1).
GenesisTargetVersion == 1

\* prune_genesis, line 124: a single version is pruned.
GenesisMaxVersion == 1

\* DBPruner::get_currrent_batch_target of the instance prune_genesis creates,
\* on a build where the sum wraps.
GenesisBatchTarget(min) ==
    Min((min + GenesisMaxVersion) % VersionModulus, GenesisTargetVersion)

\* prune_genesis, lines 123-128 and prune_inner, lines 138-142:
\* utils::create_ledger_pruner builds an instance over the database, whose
\* initialize reads the persisted checkpoint; set_target_version(1); the range
\* is computed on that private instance, which no other thread holds.
PruneGenesis ==
    /\ g_pc = "idle"
    /\ g_min_readable_version' = initialize_min_readable_version
    /\ g_target_version' = GenesisTargetVersion
    /\ change_set' = EmptyBatch
    /\ g_next_sub' = 1
    /\ IF overflow_checks
            /\ initialize_min_readable_version + GenesisMaxVersion > VersionMax
         THEN /\ g_pc' = "done"
              /\ g_ret' = Panic("get_currrent_batch_target")
              /\ UNCHANGED <<g_start_version, g_current_target_version>>
         ELSE /\ g_start_version' = initialize_min_readable_version
              /\ g_current_target_version' =
                    GenesisBatchTarget(initialize_min_readable_version)
              /\ g_pc' = "sub_pruner"
              /\ g_ret' = NoRet
    /\ UNCHANGED <<overflow_checks, driver_vars, session_vars, pruner_vars, api_vars>>

\* prune_genesis that also stages the checkpoint record, as prune does
GenesisSubPrune_PutsCheckpoint ==
    /\ g_pc = "sub_pruner"
    /\ SubPrunerAccepts(g_start_version, g_current_target_version)
    /\ IF g_next_sub = NumSubPruners
         THEN /\ change_set' =
                    BatchPutMetadata(
                        SubPrunerPrune(change_set, SubPruners[g_next_sub],
                                       g_start_version, g_current_target_version),
                        g_current_target_version)
              /\ g_pc' = "done"
              /\ g_ret' = Ok(0)
              /\ g_next_sub' = g_next_sub
         ELSE /\ change_set' =
                    SubPrunerPrune(change_set, SubPruners[g_next_sub],
                                   g_start_version, g_current_target_version)
              /\ g_next_sub' = g_next_sub + 1
              /\ UNCHANGED <<g_pc, g_ret>>
    /\ UNCHANGED <<overflow_checks, driver_vars, session_vars, pruner_vars, api_vars, g_target_version,
                   g_min_readable_version, g_start_version,
                   g_current_target_version>>

\* prune_inner called by prune_genesis, lines 144-156 and 128-130: the next
\* sub-pruner stages its deletions into the caller's change set; after the
\* last one prune_genesis returns Ok(()).
GenesisSubPrune ==
    /\ g_pc = "sub_pruner"
    /\ SubPrunerAccepts(g_start_version, g_current_target_version)
    /\ change_set' =
            SubPrunerPrune(change_set, SubPruners[g_next_sub],
                           g_start_version, g_current_target_version)
    /\ IF g_next_sub = NumSubPruners
         THEN /\ g_pc' = "done"
              /\ g_ret' = Ok(0)
              /\ g_next_sub' = g_next_sub
         ELSE /\ g_next_sub' = g_next_sub + 1
              /\ UNCHANGED <<g_pc, g_ret>>
    /\ UNCHANGED <<overflow_checks, driver_vars, session_vars, pruner_vars, api_vars, g_target_version,
                   g_min_readable_version, g_start_version,
                   g_current_target_version>>

\* prune_inner called by prune_genesis: the `?` after a sub-pruner returns its
\* error from prune_genesis (line 128).
GenesisSubPruneFails ==
    /\ g_pc = "sub_pruner"
    /\ g_pc' = "done"
    /\ g_ret' = Err(SubPruners[g_next_sub])
    /\ UNCHANGED <<overflow_checks, driver_vars, session_vars, pruner_vars, api_vars, g_target_version,
                   g_min_readable_version, g_start_version,
                   g_current_target_version, g_next_sub, change_set>>

\* The caller of prune_genesis takes the result and the change set.
GenesisReturn ==
    /\ g_pc = "done"
    /\ g_pc' = "idle"
    /\ g_target_version' = 0
    /\ g_min_readable_version' = 0
    /\ g_start_version' = 0
    /\ g_current_target_version' = 0
    /\ g_next_sub' = 1
    /\ change_set' = EmptyBatch
    /\ g_ret' = NoRet
    /\ UNCHANGED <<overflow_checks, driver_vars, session_vars, pruner_vars, api_vars>>

GenesisStep ==
    \/ PruneGenesis
    \/ GenesisSubPrune
    \/ GenesisSubPruneFails
    \/ GenesisReturn

\* One pruning loop: prune calls are serialized and set_target_version runs
\* between calls.
Next ==
    \/ \E c \in Callers, n \in Versions : Serialized /\ Prune(c, n)
    \/ \E c \in Callers : Step(c)
    \/ \E v \in Versions : Serialized /\ SetTargetVersion(v)
    \/ Restart

Spec == Init /\ [][Next]_vars

\* One pruning loop, with the retention task calling set_target_version at any
\* time, also while a prune call is in progress.
NextConc ==
    \/ \E c \in Callers, n \in Versions : Serialized /\ Prune(c, n)
    \/ \E c \in Callers : Step(c)
    \/ \E v \in Versions : SetTargetVersion(v)
    \/ Restart

SpecConc == Init /\ [][NextConc]_vars

\* The same, on a build with overflow checks (the profile aborts on overflow).
InitChecked == Init /\ overflow_checks

SpecConcChecked == InitChecked /\ [][NextConc]_vars

(***************************************************************************)
(* The State API, src/api/src/state.rs                                     *)
(***************************************************************************)

\* generate_success_response!(BasicResponse, (200, Ok))
StatusOk == 200

\* BasicErrorWith404: (400, BadRequest)
StatusBadRequest == 400

\* BasicErrorWith404: (404, NotFound)
StatusNotFound == 404

\* BasicErrorWith404: (500, Internal)
StatusInternal == 500

\* Query<Option<U64>>: no ledger_version, or one.
Requests == {{}} \cup {{v} : v \in Versions}

\* What the calls into the context and the storage answer during one request:
\* get_latest_ledger_info and state_view_at_version succeed or fail,
\* get_state_value answers Some, None or an error, and the conversion of the
\* bytes read succeeds or fails.  A call that follows a failed one is not
\* made: its answer is left at one fixed value.
StorageOutcomes ==
    {o \in [info_ok : BOOLEAN, view_ok : BOOLEAN,
            value : {"Some", "None", "Err"}, decode_ok : BOOLEAN] :
        /\ ~o.info_ok => o.view_ok
        /\ ~(o.info_ok /\ o.view_ok) => o.value = "None"
        /\ o.value # "Some" => o.decode_ok}

\* The storage holds no value of a version whose state has been pruned: it
\* answers a read of it with None or with an error.
StorageCanAnswer(version, o) ==
    version < api_min_readable => o.value # "Some"

\* preprocess_request, lines 127-129: the requested version, or the latest.
LedgerVersionOf(requested) ==
    IF requested = {} THEN api_latest ELSE CHOOSE v \in requested : TRUE

Response(endpoint, requested, status, at, what, carried, view) ==
    [endpoint |-> endpoint, requested |-> requested,
     version |-> LedgerVersionOf(requested), latest |-> api_latest,
     pruned |-> LedgerVersionOf(requested) < api_min_readable,
     status |-> status, at |-> at, what |-> what, carried |-> carried,
     state_view |-> view]

\* build_not_found: a 404 that carries the given ledger version.
build_not_found(endpoint, requested, at, what, ledger_version, view) ==
    Response(endpoint, requested, StatusNotFound, at, what, ledger_version, view)

\* E::internal / BasicErrorWith404::internal
internal(endpoint, requested, at, view) ==
    Response(endpoint, requested, StatusInternal, at, "none", 0, view)

\* BasicErrorWith404::bad_request
bad_request(endpoint, requested, at, view) ==
    Response(endpoint, requested, StatusBadRequest, at, "none", 0, view)

\* preprocess_request whose 404 carries the requested version instead of the
\* latest one
preprocess_request_CarriesRequested(endpoint, requested, o) ==
    IF ~o.info_ok
      THEN internal(endpoint, requested, "get_latest_ledger_info", FALSE)
    ELSE IF LedgerVersionOf(requested) > api_latest
      THEN build_not_found(endpoint, requested, "ledger_version", "ledger",
                           LedgerVersionOf(requested), FALSE)
    ELSE IF ~o.view_ok
      THEN internal(endpoint, requested, "state_view_at_version", FALSE)
    ELSE Response(endpoint, requested, 0, "none", "none", 0, TRUE)

\* preprocess_request: the error it returns, or the response with status 0
\* when it returns the ledger info, the version and the state view.
preprocess_request(endpoint, requested, o) ==
    IF ~o.info_ok
      THEN internal(endpoint, requested, "get_latest_ledger_info", FALSE)
    ELSE IF LedgerVersionOf(requested) > api_latest
      THEN build_not_found(endpoint, requested, "ledger_version", "ledger",
                           api_latest, FALSE)
    ELSE IF ~o.view_ok
      THEN internal(endpoint, requested, "state_view_at_version", FALSE)
    ELSE Response(endpoint, requested, 0, "none", "none", 0, TRUE)

\* The read of the state value and the conversion of its bytes, shared by
\* resource (lines 161-179), module (lines 193-209) and table_item
\* (lines 246-257).
ReadStateValue(endpoint, requested, what, o) ==
    IF o.value = "Err"
      THEN internal(endpoint, requested, "get_state_value", TRUE)
    ELSE IF o.value = "None"
      THEN build_not_found(endpoint, requested, "get_state_value", what,
                           LedgerVersionOf(requested), TRUE)
    ELSE IF ~o.decode_ok
      THEN internal(endpoint, requested, "convert", TRUE)
    ELSE Response(endpoint, requested, StatusOk, "none", "none", api_latest, TRUE)

\* get_account_resource -> resource
GetAccountResource(requested, type_ok, o) ==
    /\ StorageCanAnswer(LedgerVersionOf(requested), o)
    /\ api_resp' =
            IF ~type_ok
              THEN bad_request("resource", requested, "resource_type", FALSE)
            ELSE IF preprocess_request("resource", requested, o).status # 0
              THEN preprocess_request("resource", requested, o)
            ELSE ReadStateValue("resource", requested, "Resource", o)
    /\ UNCHANGED <<overflow_checks, driver_vars, session_vars, pruner_vars, genesis_vars, api_latest,
                   api_min_readable>>

\* get_account_module -> module
GetAccountModule(requested, o) ==
    /\ StorageCanAnswer(LedgerVersionOf(requested), o)
    /\ api_resp' =
            IF preprocess_request("module", requested, o).status # 0
              THEN preprocess_request("module", requested, o)
            ELSE ReadStateValue("module", requested, "Module", o)
    /\ UNCHANGED <<overflow_checks, driver_vars, session_vars, pruner_vars, genesis_vars, api_latest,
                   api_min_readable>>

\* get_table_item -> table_item; key is "ok", "bad" (try_into_vm_value
\* fails) or "unserializable" (simple_serialize gives None).
GetTableItem(requested, type_ok, key, o) ==
    /\ StorageCanAnswer(LedgerVersionOf(requested), o)
    /\ api_resp' =
            IF ~type_ok
              THEN bad_request("table_item", requested, "key_type", FALSE)
            ELSE IF preprocess_request("table_item", requested, o).status # 0
              THEN preprocess_request("table_item", requested, o)
            ELSE IF key = "bad"
              THEN bad_request("table_item", requested, "key", TRUE)
            ELSE IF key = "unserializable"
              THEN internal("table_item", requested, "key", TRUE)
            ELSE ReadStateValue("table_item", requested,
                                "table handle or item", o)
    /\ UNCHANGED <<overflow_checks, driver_vars, session_vars, pruner_vars, genesis_vars, api_latest,
                   api_min_readable>>

\* The ledger advances by one version.
LedgerCommit ==
    /\ api_latest < VersionMax
    /\ api_latest' = api_latest + 1
    /\ UNCHANGED <<overflow_checks, driver_vars, session_vars, pruner_vars, genesis_vars,
                   api_min_readable, api_resp>>

\* The node prunes the state history below version v.
StatePruned(v) ==
    /\ api_min_readable < v
    /\ v <= api_latest
    /\ api_min_readable' = v
    /\ UNCHANGED <<overflow_checks, driver_vars, session_vars, pruner_vars, genesis_vars, api_latest,
                   api_resp>>

NextApi ==
    \/ \E r \in Requests, t \in BOOLEAN, o \in StorageOutcomes :
            GetAccountResource(r, t, o)
    \/ \E r \in Requests, o \in StorageOutcomes : GetAccountModule(r, o)
    \/ \E r \in Requests, t \in BOOLEAN,
          k \in {"ok", "bad", "unserializable"}, o \in StorageOutcomes :
            GetTableItem(r, t, k, o)
    \/ LedgerCommit
    \/ \E v \in Versions : StatePruned(v)

SpecApi == Init /\ [][NextApi]_vars

\* testonly_update_min_version that also persists the version as checkpoint
TestonlyUpdateMinVersion_Persists(v) ==
    /\ min_readable_version' = v
    /\ metadata' = {v}
    /\ last_op' = "testonly_update_min_version"
    /\ attempt' = NoAttempt
    /\ UNCHANGED <<overflow_checks, driver_vars, session_vars, genesis_vars, api_vars,
                   target_version, gauge, store, pc, max_versions,
                   start_version, current_target_version, next_sub, db_batch,
                   ret, entry>>

\* LedgerPruner::testonly_update_min_version, lines 94-96: one store to
\* min_readable_version; the gauge is not set.
TestonlyUpdateMinVersion(v) ==
    /\ min_readable_version' = v
    /\ last_op' = "testonly_update_min_version"
    /\ attempt' = NoAttempt
    /\ UNCHANGED <<overflow_checks, driver_vars, session_vars, genesis_vars, api_vars,
                   target_version, gauge, metadata, store, pc, max_versions,
                   start_version, current_target_version, next_sub, db_batch,
                   ret, entry>>

\* The pruning loop in a test that overrides min_readable_version between
\* calls.
NextTest ==
    \/ Next
    \/ \E v \in Versions : Serialized /\ TestonlyUpdateMinVersion(v)

SpecTest == Init /\ [][NextTest]_vars

(***************************************************************************)
(* The pruning driver: one thread that keeps calling prune(n)              *)
(***************************************************************************)

DriverCaller == 1

\* The instance after LedgerPruner::new on a database that earlier runs have
\* pruned up to its checkpoint, and set_target_version(T) with a target at or
\* above it; the driver's chunk size is at least 1.
InitDriver ==
    /\ overflow_checks \in BOOLEAN
    /\ metadata \in {{}} \cup {{v} : v \in Versions}
    /\ min_readable_version = initialize_min_readable_version
    /\ gauge = AsI64(min_readable_version)
    /\ store = [s \in SubStores |->
                    {v \in Versions : v >= min_readable_version}]
    /\ target_version \in {t \in Versions : t >= min_readable_version}
    /\ driver_n \in 1..VersionMax
    /\ so_self = EmptySession
    /\ so_other = EmptySession
    /\ so_before = EmptySession
    /\ so_ret = "none"
    /\ so_write_set = {}
    /\ pc = [c \in Callers |-> "idle"]
    /\ max_versions = [c \in Callers |-> 0]
    /\ start_version = [c \in Callers |-> 0]
    /\ current_target_version = [c \in Callers |-> 0]
    /\ next_sub = [c \in Callers |-> 1]
    /\ db_batch = [c \in Callers |-> EmptyBatch]
    /\ ret = [c \in Callers |-> NoRet]
    /\ entry = [c \in Callers |-> NoEntry]
    /\ last_op = "set_target_version"
    /\ attempt = NoAttempt
    /\ g_pc = "idle"
    /\ g_target_version = 0
    /\ g_min_readable_version = 0
    /\ g_start_version = 0
    /\ g_current_target_version = 0
    /\ g_next_sub = 1
    /\ change_set = EmptyBatch
    /\ g_ret = NoRet
    /\ api_latest = 0
    /\ api_min_readable = 0
    /\ api_resp = NoResponse

\* The driver calls prune(n) again as soon as the last call has returned.
DriverPrune == Idle(DriverCaller) /\ Prune(DriverCaller, driver_n)

NextDriver ==
    \/ DriverPrune
    \/ Step(DriverCaller)

\* The driver keeps calling and a call in progress keeps running; an
\* operation of the database that can fail does not fail forever: a step
\* that is possible again and again is eventually taken.
FairDriver ==
    /\ WF_vars(DriverPrune)
    /\ WF_vars(PruneInner(DriverCaller))
    /\ \A i \in 1..NumSubPruners :
            SF_vars(next_sub[DriverCaller] = i /\ SubPrune(DriverCaller))
    /\ SF_vars(PutMetadata(DriverCaller))
    /\ SF_vars(WriteSchemas(DriverCaller))
    /\ WF_vars(RecordProgress(DriverCaller))
    /\ WF_vars(Return(DriverCaller))

SpecDriver == InitDriver /\ [][NextDriver]_vars /\ FairDriver

\* The pruning loop, and prune_genesis called on the same database.
NextGenesis ==
    \/ Next
    \/ GenesisStep

SpecGenesis == Init /\ [][NextGenesis]_vars

\* The largest max_versions of the calls that overlap.
MaxReentrantBatch == 1

\* The steps of a call in which every database operation succeeds.
StepOk(c) ==
    \/ PruneInner(c)
    \/ SubPrune(c)
    \/ PutMetadata(c)
    \/ WriteSchemas(c)
    \/ RecordProgress(c)
    \/ Return(c)

\* prune called without serialization: a call begins while another call on
\* the same instance is in progress.  The calls succeed (the failure paths
\* are those of Spec and SpecConc) and the build checks overflow.
NextReentrant ==
    \/ \E c \in Callers, n \in 0..MaxReentrantBatch : Prune(c, n)
    \/ \E c \in Callers : StepOk(c)
    \/ \E v \in Versions : Serialized /\ SetTargetVersion(v)
    \/ Restart

SpecReentrant == InitChecked /\ [][NextReentrant]_vars

(***************************************************************************)
(* SessionOutput, src/aptos-move/aptos-vm/src/move_vm_ext/session.rs       *)
(***************************************************************************)

Handles == {"h1", "h2"}

Keys == {"k1"}

StructTags == {"r1"}

ModuleNames == {"m1"}

\* MoveStorageOp: New(blob), Modify(blob) or Delete.  The blobs of one
\* session are b, so that the origin of an operation stays visible.
Ops(b) == {<<"New", b>>, <<"Modify", b>>, <<"Delete", 0>>}

\* The maps with keys in D and values in R.
Maps(D, R) == UNION {[S -> R] : S \in SUBSET D}

\* Vec<MoveEvent>: no event, or two events of the session.
EventSeqs(b) == {<<>>, <<<<b, 1>>, <<b, 2>>>>}

\* The outputs of a session that changed table items only and whose
\* new_tables and removed_tables are disjoint.
TableSessions(b) ==
    {so \in [resources : {<<>>}, modules : {<<>>}, events : EventSeqs(b),
             new_tables : SUBSET Handles, removed_tables : SUBSET Handles,
             changes : Maps(Handles, Maps(Keys, Ops(b)))] :
        so.new_tables \cap so.removed_tables = {}}

\* The outputs of a session that created and removed no table.
ChangeSessions(b) ==
    [resources : Maps(StructTags, Ops(b)), modules : Maps(ModuleNames, Ops(b)),
     events : EventSeqs(b), new_tables : {{}}, removed_tables : {{}},
     changes : Maps(Handles, Maps(Keys, Ops(b)))]

\* BTreeMap::extend that keeps the entry the map already has
Extend_KeepsFirst(m, n) ==
    [k \in DOMAIN m \cup DOMAIN n |-> IF k \in DOMAIN m THEN m[k] ELSE n[k]]

\* BTreeMap::extend, line 256: an entry of n replaces the entry of m of the
\* same key.
Extend(m, n) ==
    [k \in DOMAIN m \cup DOMAIN n |-> IF k \in DOMAIN n THEN n[k] ELSE m[k]]

\* squash, lines 235-240: new_tables is extended by other's, then the tables
\* of self.removed_tables, as it is at that point, are taken out of it.
SquashNewTables(self, other) ==
    (self.new_tables \cup other.new_tables) \ self.removed_tables

\* squash, lines 245-247
SquashRemovedTables(self, other) ==
    self.removed_tables \cup other.removed_tables

\* squash, lines 248-257: the changes of each handle of other are merged
\* into the entry of the handle, created empty when self has none.
SquashChanges(self, other) ==
    [h \in DOMAIN self.changes \cup DOMAIN other.changes |->
        IF h \in DOMAIN other.changes
          THEN Extend(IF h \in DOMAIN self.changes
                        THEN self.changes[h] ELSE <<>>,
                      other.changes[h])
          ELSE self.changes[h]]

\* SessionOutput::squash.  MoveChangeSet::squash, of another crate, merges
\* the resources and modules or fails; its failure returns
\* DATA_FORMAT_ERROR before anything else of self is touched.
Squash(change_set_ok) ==
    /\ so_ret = "none"
    /\ so_before' = so_self
    /\ IF change_set_ok
         THEN /\ so_self' =
                    [resources |-> Extend(so_self.resources, so_other.resources),
                     modules |-> Extend(so_self.modules, so_other.modules),
                     events |-> so_self.events \o so_other.events,
                     new_tables |-> SquashNewTables(so_self, so_other),
                     removed_tables |-> SquashRemovedTables(so_self, so_other),
                     changes |-> SquashChanges(so_self, so_other)]
              /\ so_ret' = "Ok"
         ELSE /\ so_self' = so_self
              /\ so_ret' = "DATA_FORMAT_ERROR"
    /\ UNCHANGED <<overflow_checks, driver_vars, pruner_vars, genesis_vars,
                   api_vars, so_other, so_write_set>>

\* into_change_set, lines 172-175: the write operation of a resource.
ResourceWriteOp(op) ==
    IF op[1] = "Delete"
      THEN <<"Deletion", 0>>
      ELSE <<"Modification", op[2]>>

\* into_change_set, lines 181-185: the write operation of a module.
ModuleWriteOp(op) ==
    CASE op[1] = "Delete" -> <<"Deletion", 0>>
      [] op[1] = "New" -> <<"Creation", op[2]>>
      [] op[1] = "Modify" -> <<"Modification", op[2]>>

\* into_change_set, lines 194-198: the write operation of a table item.
TableItemWriteOp(op) ==
    CASE op[1] = "Delete" -> <<"Deletion", 0>>
      [] op[1] = "New" -> <<"Creation", op[2]>>
      [] op[1] = "Modify" -> <<"Modification", op[2]>>

\* into_change_set, lines 167-200: the pairs pushed to the WriteSetMut.
WriteSetOf(so) ==
    {<<<<"resource", t>>, ResourceWriteOp(so.resources[t])>> :
        t \in DOMAIN so.resources}
    \cup {<<<<"module", m>>, ModuleWriteOp(so.modules[m])>> :
            m \in DOMAIN so.modules}
    \cup UNION {{<<<<"table_item", h, k>>,
                   TableItemWriteOp(so.changes[h][k])>> :
                    k \in DOMAIN so.changes[h]} : h \in DOMAIN so.changes}

\* SessionOutput::into_change_set: freeze fails with DATA_FORMAT_ERROR, the
\* decoding of an event key with EVENT_KEY_MISMATCH; otherwise the ChangeSet
\* of the write set is returned.
IntoChangeSet(freeze_ok, keys_ok) ==
    /\ so_ret = "none"
    /\ so_before' = so_self
    /\ IF ~freeze_ok
         THEN /\ so_ret' = "DATA_FORMAT_ERROR"
              /\ so_write_set' = so_write_set
         ELSE IF ~keys_ok /\ so_self.events # <<>>
         THEN /\ so_ret' = "EVENT_KEY_MISMATCH"
              /\ so_write_set' = so_write_set
         ELSE /\ so_ret' = "Ok"
              /\ so_write_set' = WriteSetOf(so_self)
    /\ UNCHANGED <<overflow_checks, driver_vars, pruner_vars, genesis_vars,
                   api_vars, so_self, so_other>>

\* Two sessions have finished; the second is squashed into the first.
InitSquash ==
    /\ InitPruner
    /\ so_self \in TableSessions(1)
    /\ so_other \in TableSessions(2)
    /\ so_before = so_self
    /\ so_ret = "none"
    /\ so_write_set = {}

NextSquash == \E ok \in BOOLEAN : Squash(ok)

SpecSquash == InitSquash /\ [][NextSquash]_vars

\* A session has finished; its output is turned into a ChangeSet.
InitChangeSet ==
    /\ InitPruner
    /\ so_self \in ChangeSessions(1)
    /\ so_other = EmptySession
    /\ so_before = so_self
    /\ so_ret = "none"
    /\ so_write_set = {}

NextChangeSet == \E f \in BOOLEAN, k \in BOOLEAN : IntoChangeSet(f, k)

SpecChangeSet == InitChangeSet /\ [][NextChangeSet]_vars

TypeOK ==
    /\ target_version \in Versions
    /\ min_readable_version \in Versions
    /\ metadata \in SUBSET Versions
    /\ Cardinality(metadata) <= 1
    /\ store \in [SubStores -> SUBSET Versions]

(***************************************************************************)
(* Properties                                                              *)
(***************************************************************************)

\* The persisted checkpoint, an absent record read as 0.
PersistedCheckpoint == IF metadata = {} THEN 0 ELSE CHOOSE v \in metadata : TRUE

Done(c) == pc[c] = "done"

C2_CommitFailureChangesNothing ==
    \A c \in Callers :
        (Done(c) /\ ret[c].at = "write_schemas") =>
            /\ ret[c].kind = "Err"
            /\ min_readable_version = entry[c].min
            /\ gauge = entry[c].gauge
            /\ metadata = entry[c].metadata
            /\ store = entry[c].store

C2_Witness ==
    \E c \in Callers :
        /\ Done(c)
        /\ ret[c] = Err("write_schemas")
        /\ \A s \in SubStores : db_batch[c].deletes[s] # {}
        /\ db_batch[c].puts # {}

C5_NoOpBelowTarget ==
    \A c \in Callers :
        (Done(c) /\ entry[c].min >= entry[c].target) =>
            /\ ret[c] = Ok(entry[c].min)
            /\ next_sub[c] = 1
            /\ db_batch[c] = EmptyBatch
            /\ min_readable_version = entry[c].min
            /\ target_version = entry[c].target
            /\ gauge = entry[c].gauge
            /\ metadata = entry[c].metadata
            /\ store = entry[c].store

C5_Witness ==
    \E c \in Callers :
        /\ Done(c)
        /\ entry[c].min > 0
        /\ entry[c].min >= entry[c].target
        /\ max_versions[c] > 0
        /\ ret[c].kind = "Ok"

\* C6 - Cross-store consistency: after a successful prune that advanced
\* min_readable_version from old to V, no sub-store holds a version below V and
\* every version the call removed from a sub-store lies in [old, V).
C6_CrossStoreConsistency ==
    \A c \in Callers :
        (Done(c) /\ ret[c].kind = "Ok" /\ ret[c].val > entry[c].min) =>
            \A s \in SubStores :
                /\ \A v \in Versions : v < ret[c].val => v \notin store[s]
                /\ \A v \in entry[c].store[s] \ store[s] :
                        entry[c].min <= v /\ v < ret[c].val

C6_Witness ==
    \E c \in Callers :
        /\ Done(c)
        /\ ret[c].kind = "Ok"
        /\ entry[c].min > 0
        /\ ret[c].val > entry[c].min
        /\ ret[c].val < entry[c].target
        /\ \A s \in SubStores : entry[c].store[s] \ store[s] # {}

\* C7 - Idempotent resume: a pruner constructed on a database whose metadata
\* record is LatestVersion(V) has min_readable_version V, and 0 when there is
\* no record; construction writes nothing to the database.
C7_IdempotentResume ==
    /\ [](last_op = "new" =>
            /\ metadata = {} => min_readable_version = 0
            /\ \A v \in metadata : min_readable_version = v)
    /\ [][last_op' = "new" => (metadata' = metadata /\ store' = store)]_vars

C7_Witness ==
    /\ last_op = "new"
    /\ metadata # {}
    /\ min_readable_version > 0

C9_MinReadableGuarantee ==
    \A s \in SubStores : \A v \in Versions :
        v >= min_readable_version => v \in store[s]

Range(a, b) == {v \in Versions : a <= v /\ v < b}

\* C11 - Cross-store atomic visibility: the sub-stores and the checkpoint
\* change only in the single write of one call, which removes the call's range
\* from all four sub-stores and sets the checkpoint in the same step; a reader
\* never finds one sub-store holding a version that another has lost.
C11_AtomicVisibility ==
    /\ [](\A s1, s2 \in SubStores : store[s1] = store[s2])
    /\ [][(store' # store \/ metadata' # metadata) =>
            \E c \in Callers :
                /\ pc[c] = "write_schemas"
                /\ pc'[c] = "record_progress"
                /\ metadata' = {current_target_version[c]}
                /\ \A s \in SubStores :
                      store'[s] =
                        store[s] \ Range(start_version[c],
                                         current_target_version[c])]_vars

C11_Witness ==
    \E c \in Callers :
        /\ pc[c] = "record_progress"
        /\ start_version[c] > 0
        /\ current_target_version[c] > start_version[c]
        /\ metadata = {current_target_version[c]}
        /\ min_readable_version = start_version[c]
        /\ \A s \in SubStores :
              /\ store[s] = entry[c].store[s]
                              \ Range(start_version[c], current_target_version[c])
              /\ store[s] # entry[c].store[s]

\* C12 - Staging failure aborts the call: when a sub-pruner or the metadata
\* put fails, prune returns that error, no later sub-pruner has been invoked,
\* nothing was committed, and min_readable_version, the gauge, the checkpoint
\* and the sub-stores are as they were when the call began.
C12_StagingFailureAborts ==
    \A c \in Callers :
        (Done(c) /\ ret[c].at \in SubStores \cup {"put"}) =>
            /\ ret[c].kind = "Err"
            /\ min_readable_version = entry[c].min
            /\ gauge = entry[c].gauge
            /\ metadata = entry[c].metadata
            /\ store = entry[c].store
            /\ db_batch[c].puts = {}
            /\ ret[c].at \in SubStores =>
                  /\ ret[c].at = SubPruners[next_sub[c]]
                  /\ \A j \in next_sub[c]..NumSubPruners :
                        db_batch[c].deletes[SubPruners[j]] = {}
            /\ ret[c].at = "put" => next_sub[c] = NumSubPruners

C12_Witness ==
    \E c \in Callers :
        /\ Done(c)
        /\ ret[c] = Err("ledger_counter_pruner")
        /\ db_batch[c].deletes["transaction_store_pruner"] # {}
        /\ db_batch[c].deletes["write_set_pruner"] # {}
        /\ db_batch[c].deletes["event_store_pruner"] = {}

\* C13 - target_version is captured once per prune call: with
\* set_target_version running during the call, the end of the range is
\* computed from the target the pending check saw, the range is never
\* inverted, and no checkpoint below the call's initial min_readable_version
\* is committed.
C13_TargetCapturedOnce ==
    \A c \in Callers :
        /\ pc[c] = "sub_pruner" =>
              /\ current_target_version[c] =
                    Min((entry[c].min + max_versions[c]) % VersionModulus,
                        entry[c].target)
              /\ start_version[c] <= current_target_version[c]
        /\ pc[c] = "record_progress" => PersistedCheckpoint >= entry[c].min

\* C15 - Retry is idempotent: the call that repeats a failed prune(n) under
\* the same target stages the range and the checkpoint of the failed attempt,
\* and when it succeeds min_readable_version, the checkpoint and the
\* sub-stores are what the failed attempt would have produced.
C15_RetryIdempotent ==
    \A c \in Callers :
        (/\ attempt.failed
         /\ ~Idle(c)
         /\ max_versions[c] = attempt.n
         /\ entry[c].target = attempt.target) =>
            /\ pc[c] \in {"sub_pruner", "put", "write_schemas", "record_progress"} =>
                  /\ start_version[c] = attempt.start
                  /\ current_target_version[c] = attempt.end
            /\ pc[c] \in {"write_schemas", "record_progress"} =>
                  /\ db_batch[c].puts = {attempt.end}
                  /\ \A s \in SubStores :
                        db_batch[c].deletes[s] = Range(attempt.start, attempt.end)
            /\ (Done(c) /\ ret[c].kind = "Ok") =>
                  /\ ret[c].val = attempt.end
                  /\ min_readable_version = attempt.end
                  /\ metadata = {attempt.end}
                  /\ \A s \in SubStores :
                        store[s] =
                          attempt.store[s] \ Range(attempt.start, attempt.end)

C15_Witness ==
    \E c \in Callers :
        /\ attempt.failed
        /\ attempt.end > attempt.start
        /\ attempt.start > 0
        /\ Done(c)
        /\ ret[c].kind = "Ok"
        /\ max_versions[c] = attempt.n
        /\ entry[c].target = attempt.target
        /\ min_readable_version = attempt.end

\* C18 - In every prune call with pending work the sub-pruners are invoked
\* with one and the same range [start, end): start is min_readable_version at
\* the beginning of the call, end is current_target_version, and start <= end.
C18_SameValidRange ==
    \A c \in Callers :
        pc[c] = "sub_pruner" =>
            /\ start_version[c] = entry[c].min
            /\ start_version[c] <= current_target_version[c]
            /\ \A j \in 1..(next_sub[c] - 1) :
                  db_batch[c].deletes[SubPruners[j]] =
                      Range(start_version[c], current_target_version[c])

\* C20 - Checkpoint agreement: after a successful serialized prune call that
\* had pending work, the value returned, min_readable_version and the one
\* persisted metadata record all equal the call's current_target_version.
C20_CheckpointAgreement ==
    \A c \in Callers :
        (Done(c) /\ ret[c].kind = "Ok" /\ entry[c].target > entry[c].min) =>
            /\ ret[c].val = current_target_version[c]
            /\ min_readable_version = current_target_version[c]
            /\ metadata = {current_target_version[c]}
            /\ Cardinality(metadata) = 1

C20_Witness ==
    \E c \in Callers :
        /\ Done(c)
        /\ ret[c].kind = "Ok"
        /\ entry[c].target > entry[c].min
        /\ entry[c].metadata # {}
        /\ entry[c].metadata # metadata
        /\ metadata = {current_target_version[c]}

\* C14: prune_genesis on a database without a persisted checkpoint stages
\* into the caller's change set the deletion of exactly version 0 from each
\* sub-store and no LedgerPruner metadata entry, and no step of it changes
\* the database: neither the stores nor the persisted checkpoint.
C14_GenesisStagesOnlyVersionZero ==
    /\ [](g_pc = "done" /\ g_ret.kind = "Ok" /\ g_min_readable_version = 0
            => /\ \A s \in SubStores : change_set.deletes[s] = {0}
               /\ change_set.puts = {})
    /\ [][genesis_vars' # genesis_vars
            => metadata' = metadata /\ store' = store]_vars

C14_Witness ==
    /\ g_pc = "done"
    /\ g_ret.kind = "Ok"
    /\ g_min_readable_version = 0
    /\ metadata = {}
    /\ \A s \in SubStores : store[s] = Versions /\ change_set.deletes[s] = {0}

\* C19: whatever checkpoint is persisted in the database, prune_genesis
\* invokes every sub-pruner with start 0 and end 1, never with a start above
\* its end.
C19_GenesisAlwaysZeroToOne ==
    g_pc = "sub_pruner"
        => /\ g_start_version = 0
           /\ g_current_target_version = 1
           /\ g_start_version <= g_current_target_version

\* C16: prune is not reentrant-safe.  With two prune calls in progress at
\* once min_readable_version and the persisted checkpoint can move to a lower
\* value than one already recorded, and they move down only through a call
\* that computed its range before another call recorded its progress (or,
\* for min_readable_version, through a restart that reads such a checkpoint):
\* serialized calls, whose range starts at the recorded value, never lower
\* either.
C16_OnlyOverlappingCallsLower ==
    [][/\ min_readable_version' < min_readable_version
            => \/ \E c \in Callers :
                    /\ pc[c] = "record_progress"
                    /\ pc'[c] = "done"
                    /\ start_version[c] < min_readable_version
               \/ /\ last_op' = "new"
                  /\ min_readable_version' = PersistedCheckpoint
       /\ PersistedCheckpoint' < PersistedCheckpoint
            => \E c \in Callers :
                    /\ pc[c] = "write_schemas"
                    /\ pc'[c] = "record_progress"
                    /\ start_version[c] < PersistedCheckpoint]_vars

\* Two overlapping calls have both returned Ok; the one that finished last
\* recorded and persisted a lower version than the other had recorded.
C16_Witness ==
    \E c1, c2 \in Callers :
        /\ c1 # c2
        /\ Done(c1) /\ ret[c1].kind = "Ok"
        /\ Done(c2) /\ ret[c2].kind = "Ok"
        /\ current_target_version[c1] = ret[c1].val
        /\ current_target_version[c2] = ret[c2].val
        /\ ret[c2].val < ret[c1].val
        /\ min_readable_version = ret[c2].val
        /\ PersistedCheckpoint = ret[c2].val
        /\ \A s \in SubStores : store[s] \cap Range(0, ret[c1].val) = {}

\* C17: a get_account_resource, get_account_module or get_table_item request
\* for a ledger version at or below the latest version whose data has been
\* pruned is answered with a 404, not with a 500 and not with data.  The
\* requests meant are well formed and the latest ledger info was read, so
\* that the answer is the one to the read of the pruned version.
C17_PrunedIsNotFound ==
    /\ api_resp.endpoint \in {"resource", "module", "table_item"}
    /\ api_resp.pruned
    /\ api_resp.at \notin {"resource_type", "key_type", "key",
                           "get_latest_ledger_info"}
    => api_resp.status = StatusNotFound

\* C21: the computation of current_target_version does not wrap.  For every
\* max_versions up to the largest and every min_readable_version below
\* target_version the result lies in [min_readable_version, target_version]
\* and the call does not panic.
C21_BatchTargetDoesNotWrap ==
    \A c \in Callers :
        /\ ret[c].kind # "Panic"
        /\ pc[c] = "sub_pruner"
            => /\ start_version[c] <= current_target_version[c]
               /\ current_target_version[c] <= target_version

\* C22: with a fixed target T and a fixed chunk size n >= 1, a driver that
\* keeps calling prune(n), every failure being followed eventually by a
\* successful attempt, brings min_readable_version to T, where it stays, and
\* every later call is a no-op returning T.
C22_Progress ==
    <>[](/\ min_readable_version = target_version
         /\ Done(DriverCaller) => ret[DriverCaller] = Ok(target_version))

\* C23: prune(0) with pending work deletes nothing.  Every sub-pruner is
\* invoked with start == end, no sub-store record is removed, and the value
\* returned, min_readable_version and the persisted checkpoint value all
\* equal min_readable_version before the call.
C23_PruneZeroDeletesNothing ==
    \A c \in Callers :
        (~Idle(c) /\ max_versions[c] = 0 /\ entry[c].target > entry[c].min) =>
            /\ pc[c] \in {"sub_pruner", "put", "write_schemas",
                          "record_progress"}
                => /\ start_version[c] = entry[c].min
                   /\ current_target_version[c] = start_version[c]
                   /\ \A s \in SubStores : db_batch[c].deletes[s] = {}
            /\ store = entry[c].store
            /\ min_readable_version = entry[c].min
            /\ PersistedCheckpoint = entry[c].min
            /\ Done(c) => ret[c] = Ok(entry[c].min) \/ ret[c].kind = "Err"

C23_Witness ==
    \E c \in Callers :
        /\ Done(c)
        /\ max_versions[c] = 0
        /\ entry[c].target > entry[c].min
        /\ entry[c].min > 0
        /\ ret[c] = Ok(entry[c].min)
        /\ next_sub[c] = NumSubPruners
        /\ metadata = {entry[c].min}

\* Sub-pruner i has staged the deletions of the range of call c.
Staged(c, i) ==
    db_batch[c].deletes[SubPruners[i]] =
        Range(start_version[c], current_target_version[c])

\* C24: within one prune call the sub-pruners are invoked in the fixed order
\* transaction store, write set, ledger counter, event store; the metadata
\* entry is staged only after all four have staged, and the commit happens
\* only after the metadata entry is staged.
C24_FixedOrder ==
    /\ [](/\ SubPruners = <<"transaction_store_pruner", "write_set_pruner",
                            "ledger_counter_pruner", "event_store_pruner">>
          /\ \A c \in Callers :
                /\ pc[c] = "sub_pruner"
                    => /\ \A i \in 1..NumSubPruners :
                            IF i < next_sub[c]
                              THEN Staged(c, i)
                              ELSE db_batch[c].deletes[SubPruners[i]] = {}
                       /\ db_batch[c].puts = {}
                /\ pc[c] = "put"
                    => /\ \A i \in 1..NumSubPruners : Staged(c, i)
                       /\ db_batch[c].puts = {}
                /\ pc[c] = "write_schemas"
                    => /\ \A i \in 1..NumSubPruners : Staged(c, i)
                       /\ db_batch[c].puts = {current_target_version[c]})
    /\ [][(store' # store \/ metadata' # metadata) =>
            \E c \in Callers :
                /\ pc[c] = "write_schemas"
                /\ db_batch[c].puts = {current_target_version[c]}]_vars

\* The first two sub-pruners have staged a range that is not empty, the
\* last two have not been invoked yet.
C24_Witness ==
    \E c \in Callers :
        /\ pc[c] = "sub_pruner"
        /\ next_sub[c] = 3
        /\ start_version[c] < current_target_version[c]
        /\ db_batch[c].deletes["transaction_store_pruner"] # {}
        /\ db_batch[c].deletes["write_set_pruner"] # {}
        /\ db_batch[c].deletes["ledger_counter_pruner"] = {}
        /\ db_batch[c].deletes["event_store_pruner"] = {}

\* C25: set_target_version(v) succeeds for any v at any time and changes
\* only target_version: min_readable_version, the gauge, the persisted
\* checkpoint and the sub-stores are left as they are; with a target at or
\* below min_readable_version the next prune is a no-op, not an error.
C25_SetTargetOnlyTarget ==
    /\ [](\A v \in Versions : ENABLED SetTargetVersion(v))
    /\ [][(target_version' # target_version
                /\ last_op' = "set_target_version")
            => /\ UNCHANGED <<min_readable_version, gauge, metadata, store>>
               /\ UNCHANGED <<pc, db_batch, ret>>]_vars
    /\ [](\A c \in Callers :
            (Done(c) /\ entry[c].target <= entry[c].min)
                => ret[c] = Ok(entry[c].min))

\* The target was set below min_readable_version and the prune call that
\* followed returned min_readable_version.
C25_Witness ==
    \E c \in Callers :
        /\ Done(c)
        /\ last_op = "prune"
        /\ target_version < min_readable_version
        /\ entry[c].target = target_version
        /\ entry[c].min = min_readable_version
        /\ ret[c] = Ok(min_readable_version)
        /\ metadata = {min_readable_version}

\* C26: testonly_update_min_version(v) changes only the in-memory
\* min_readable_version: it writes no metadata record and stages no
\* deletion, so a LedgerPruner constructed afterwards on the same database
\* reports the persisted checkpoint, not v.
C26_TestonlyOnlyInMemory ==
    /\ [][last_op' = "testonly_update_min_version"
            => UNCHANGED <<metadata, store, db_batch, target_version,
                           gauge>>]_vars
    /\ [][(last_op = "testonly_update_min_version" /\ last_op' = "new")
            => /\ metadata' = metadata
               /\ min_readable_version' = PersistedCheckpoint]_vars

\* The override has set a version above the persisted checkpoint.
C26_Witness ==
    /\ last_op = "testonly_update_min_version"
    /\ PersistedCheckpoint > 0
    /\ min_readable_version > PersistedCheckpoint
    /\ \A s \in SubStores : PersistedCheckpoint \in store[s]

\* The operation of table item (h, k) in a SessionOutput, "none" when it has
\* none.
ItemOp(so, h, k) ==
    IF h \in DOMAIN so.changes /\ k \in DOMAIN so.changes[h]
      THEN so.changes[h][k]
      ELSE <<"none", 0>>

\* C27: squash merges table item changes with the later session winning.
\* For every (table handle, key) the entry after self.squash(other) is
\* other's operation when other has one and self's otherwise, and the events
\* are self's events followed by other's in their order.
C27_SquashLaterWins ==
    so_ret = "Ok" =>
        /\ \A h \in Handles, k \in Keys :
                ItemOp(so_self, h, k) =
                    IF ItemOp(so_other, h, k) # <<"none", 0>>
                      THEN ItemOp(so_other, h, k)
                      ELSE ItemOp(so_before, h, k)
        /\ so_self.events = so_before.events \o so_other.events

\* An item created in self was deleted in other and is kept as a delete,
\* and both sessions had events.
C27_Witness ==
    /\ so_ret = "Ok"
    /\ ItemOp(so_before, "h1", "k1") = <<"New", 1>>
    /\ ItemOp(so_other, "h1", "k1") = <<"Delete", 0>>
    /\ ItemOp(so_self, "h1", "k1") = <<"Delete", 0>>
    /\ ItemOp(so_before, "h2", "k1") = <<"Modify", 1>>
    /\ ItemOp(so_self, "h2", "k1") = <<"Modify", 1>>
    /\ Len(so_self.events) = 4

\* C28: when new_tables and removed_tables are disjoint in self and in
\* other, after self.squash(other) no table handle is in both new_tables
\* and removed_tables of self.
C28_TableSetsDisjoint ==
    (/\ so_ret = "Ok"
     /\ so_before.new_tables \cap so_before.removed_tables = {}
     /\ so_other.new_tables \cap so_other.removed_tables = {})
        => so_self.new_tables \cap so_self.removed_tables = {}

\* The write operation of the same kind as a Move storage operation.
SameKind(op) ==
    CASE op[1] = "New" -> <<"Creation", op[2]>>
      [] op[1] = "Modify" -> <<"Modification", op[2]>>
      [] op[1] = "Delete" -> <<"Deletion", 0>>

\* C29: into_change_set maps New to Creation, Modify to Modification and
\* Delete to Deletion, uniformly for resources, modules and table items.
C29_SameKindWriteOp ==
    (so_ret = "Ok" /\ so_other = EmptySession /\ so_before = so_self) =>
        /\ \A t \in DOMAIN so_self.resources :
                <<<<"resource", t>>, SameKind(so_self.resources[t])>>
                    \in so_write_set
        /\ \A m \in DOMAIN so_self.modules :
                <<<<"module", m>>, SameKind(so_self.modules[m])>>
                    \in so_write_set
        /\ \A h \in DOMAIN so_self.changes :
                \A k \in DOMAIN so_self.changes[h] :
                    <<<<"table_item", h, k>>, SameKind(so_self.changes[h][k])>>
                        \in so_write_set

\* C30: a request whose ledger_version is greater than the latest ledger
\* version is rejected with a 404 that carries the latest ledger version,
\* before any state view is opened; a request with no ledger_version uses
\* the latest ledger version and passes the guard.
C30_VersionGuardAlways ==
    api_resp.endpoint # "none" =>
        /\ api_resp.version > api_resp.latest
            => /\ api_resp.status = StatusNotFound
               /\ api_resp.what = "ledger"
               /\ api_resp.carried = api_resp.latest
               /\ ~api_resp.state_view
        /\ api_resp.requested = {}
            => /\ api_resp.version = api_resp.latest
               /\ api_resp.what # "ledger"

\* C30, for the requests that reach the guard: their resource type or table
\* key and value types parsed and the latest ledger info was read.
C30_VersionGuardWhenReached ==
    (/\ api_resp.endpoint # "none"
     /\ api_resp.at \notin {"resource_type", "key_type",
                            "get_latest_ledger_info"}) =>
        /\ api_resp.version > api_resp.latest
            => /\ api_resp.status = StatusNotFound
               /\ api_resp.at = "ledger_version"
               /\ api_resp.what = "ledger"
               /\ api_resp.carried = api_resp.latest
               /\ ~api_resp.state_view
        /\ api_resp.requested = {}
            => /\ api_resp.version = api_resp.latest
               /\ api_resp.what # "ledger"

\* A request for a version the ledger has not reached was rejected.
C30_Witness ==
    /\ api_resp.endpoint = "table_item"
    /\ api_resp.latest = 1
    /\ api_resp.version = 2
    /\ api_resp.status = StatusNotFound
    /\ api_resp.carried = 1
    /\ ~api_resp.state_view

====
